---- MODULE Spec2Model ----
(***************************************************************************)
(* Model of certora/checker/create_certificate.py: the reconstruction of   *)
(* a Merkle tree from per-account proofs (populate), its post-order        *)
(* linearisation (walk) and the emission of the certificate.               *)
(*                                                                         *)
(* Hashes are opaque 32-byte values.  keccak is collision-free here: a     *)
(* hash is the term that was hashed.  The order the script uses on hashes  *)
(* (`<=` on their hex strings) is a total order unrelated to the way a     *)
(* hash was derived; the hashes of a proof file are taken to be written    *)
(* as to_hex writes them.  certificate["total"] is copied from the file    *)
(* and read by no step; it is left out.  walk's recursion is as deep as    *)
(* the longest proof, far from Python's recursion limit.                   *)
(***************************************************************************)
EXTENDS Integers, Sequences, FiniteSets, TLC

\* ---------------------------------------------------------------- bounds
\* Size of a proof file: its number of entries plus its number of siblings.
MaxSize == 4

\* ------------------------------------------------------------ input data
\* A 32-byte hash is the sequence of numbers that spells what was hashed, so
\* that no two different inputs have the same hash.  An address string is
\* <<bytes, casing>>: the same 20 bytes can be written in lower case or in
\* checksum (mixed) case.
Casings == {"lower", "checksum"}
Addresses == { << <<a>>, c >> : a \in {1, 2}, c \in Casings }

\* Amounts a proof file can carry; BadAmount stands for a value that int() or
\* the uint256 encoding rejects.
BadAmount == -1
Amounts == {100}

\* w3.to_checksum_address: normalises the casing, keeps the bytes.
to_checksum_address(address) == <<address[1], "checksum">>

\* A 32-byte value that is the hash of nothing.
Junk == <<0>>

\* solidity_keccak(["address","uint256"], [address, amount]) on the
\* checksummed address.
keccak_leaf(address, amount) ==
    <<1>> \o to_checksum_address(address)[1] \o <<amount>>

\* solidity_keccak(["bytes32","bytes32"], [left_hash, right_hash]): depends
\* on the order of the two.
keccak_node(left_hash, right_hash) == <<2>> \o left_hash \o right_hash

RECURSIVE Digest(_, _)
Digest(h, n) == IF n = 0 THEN 3 ELSE (Digest(h, n - 1) * 7 + h[n] + 1) % 5

RECURSIVE LexLE(_, _, _)
LexLE(x, y, i) ==
    IF i > Len(x) THEN TRUE
    ELSE IF x[i] # y[i] THEN x[i] < y[i]
    ELSE LexLE(x, y, i + 1)

\* The order of two hashes as the script compares them (`<=` on their hex
\* strings): a total order that does not follow the way a hash was derived.
HexLE(x, y) ==
    LET kx == Digest(x, Len(x))
        ky == Digest(y, Len(y))
    IN  \/ kx < ky
        \/ kx = ky /\ Len(x) < Len(y)
        \/ kx = ky /\ Len(x) = Len(y) /\ LexLE(x, y, 1)

\* A faulty sibling order: the running hash always goes left.
OrderedPairNoSort(computedHash, proofElement) == <<computedHash, proofElement>>

\* Lines 35-39: [leftHash, rightHash].
OrderedPair(computedHash, proofElement) ==
    IF HexLE(computedHash, proofElement)
    THEN <<computedHash, proofElement>>
    ELSE <<proofElement, computedHash>>

\* Line 40: the parent of the running hash and a sibling.
ParentHash(computedHash, proofElement) ==
    LET p == OrderedPair(computedHash, proofElement)
    IN  keccak_node(p[1], p[2])

\* keccak_node(h, h)[:42]: the first 20 bytes, as a lower-case hex string.
DisplayId(h) == <<keccak_node(h, h), "lower">>

LeafHashes == { keccak_leaf(a, v) : a \in Addresses, v \in Amounts }

\* Sibling hashes a proof can carry.
ProofElements ==
    LeafHashes \cup {Junk}
      \cup { ParentHash(p[1], p[2]) :
                p \in { q \in LeafHashes \X LeafHashes : q[1] # q[2] } }

\* An entry of proofs["proofs"].
Claim(address, amount, proof) ==
    [address |-> address, amount |-> amount, proof |-> proof]

\* A JSON object has no key twice: the address strings a file can still take.
Unused(file) == Addresses \ { file[i].address : i \in 1..Len(file) }

\* populate stops at a bad amount, before it reads the proof or any later
\* entry: a file with a bad amount ends there.
Open(file) == file = <<>> \/ file[Len(file)].amount # BadAmount

RECURSIVE FilesOfSize(_)
\* The proof files of n entries and siblings in all.
FilesOfSize(n) ==
    IF n = 0 THEN { <<>> }
    ELSE LET smaller == { f \in FilesOfSize(n - 1) : Open(f) }
         IN  UNION { { Append(f, Claim(a, v, <<>>)) :
                         a \in Unused(f), v \in Amounts \cup {BadAmount} } :
                     f \in smaller }
               \cup
             UNION { { [f EXCEPT ![Len(f)].proof = Append(@, e)] :
                         e \in ProofElements } :
                     f \in smaller \ { <<>> } }

\* proofs["proofs"], in file order.
ProofFiles == UNION { FilesOfSize(n) : n \in 0..MaxSize }

\* The running hash of a claim after its first n siblings.
RECURSIVE Fold(_, _)
Fold(claim, n) ==
    IF n = 0 THEN keccak_leaf(claim.address, claim.amount)
    ELSE ParentHash(Fold(claim, n - 1), claim.proof[n])

FoldAll(claim) == Fold(claim, Len(claim.proof))

\* The hashes a claim mentions or derives.
PathHashes(claim) ==
    IF claim.amount = BadAmount THEN {}
    ELSE { Fold(claim, n) : n \in 0..Len(claim.proof) }
           \cup { claim.proof[n] : n \in 1..Len(claim.proof) }

\* Values of proofs["root"] for a proof file: every hash the file mentions or
\* derives, and Junk for any hash that it does not.
RootsFor(file) == {Junk} \cup UNION { PathHashes(file[i]) : i \in 1..Len(file) }

\* ------------------------------------------------------------------ state
VARIABLES
    proofs,           \* proofs["proofs"], in file order
    root,             \* proofs["root"]
    hash_to_address, hash_to_value, left, right,    \* the registry
    certificate,      \* the certificate under construction
    pc,               \* "main" | "populate" | "walk" | "done" | "error"
    idx,              \* position of the for loop of line 71
    k,                \* position of the for loop of line 34
    computedHash,     \* populate's running hash
    stack,            \* call stack of walk: frames [h, ln]
    output_file       \* what was written to certificate.json

vars == <<proofs, root, hash_to_address, hash_to_value, left, right,
          certificate, pc, idx, k, computedHash, stack, output_file>>

\* dict[key] = value
Put(dict, key, value) ==
    [x \in (DOMAIN dict) \cup {key} |-> IF x = key THEN value ELSE dict[x]]

EmptyDict == [x \in {} |-> 0]

\* The four module-level dictionaries of lines 22-25.
Registry ==
    [hash_to_address |-> hash_to_address, hash_to_value |-> hash_to_value,
     left |-> left, right |-> right]

EmptyRegistry ==
    [hash_to_address |-> EmptyDict, hash_to_value |-> EmptyDict,
     left |-> EmptyDict, right |-> EmptyDict]

\* Lines 31-33: the entries of a leaf.
PutLeaf(reg, address, amount) ==
    LET h == keccak_leaf(address, amount)
    IN  [reg EXCEPT !.hash_to_address = Put(@, h, address),
                    !.hash_to_value = Put(@, h, amount)]

\* Lines 35-43: the entries of the parent of the running hash and a sibling.
PutNode(reg, running, proofElement) ==
    LET p == OrderedPair(running, proofElement)
        h == keccak_node(p[1], p[2])
    IN  [reg EXCEPT !.left = Put(@, h, p[1]),
                    !.right = Put(@, h, p[2]),
                    !.hash_to_address = Put(@, h, DisplayId(h))]

Init ==
    /\ proofs \in ProofFiles
    /\ root \in RootsFor(proofs)
    /\ hash_to_address = EmptyDict
    /\ hash_to_value = EmptyDict
    /\ left = EmptyDict
    /\ right = EmptyDict
    /\ certificate = [root |-> root, leaf |-> <<>>, node |-> <<>>]
    /\ pc = "main"
    /\ idx = 1
    /\ k = 0
    /\ computedHash = Junk
    /\ stack = <<>>
    /\ output_file = <<>>

\* ---------------------------------------------------------------- populate
\* Lines 30-33: the leaf of proofs[idx].
PopulateLeaf ==
    /\ pc = "main"
    /\ idx <= Len(proofs)
    /\ LET claim == proofs[idx]
       IN  IF claim.amount = BadAmount
           THEN /\ pc' = "error"
                /\ UNCHANGED <<hash_to_address, hash_to_value, computedHash, k>>
           ELSE LET reg == PutLeaf(Registry, claim.address, claim.amount)
                IN  /\ computedHash' = keccak_leaf(claim.address, claim.amount)
                    /\ hash_to_address' = reg.hash_to_address
                    /\ hash_to_value' = reg.hash_to_value
                    /\ k' = 1
                    /\ pc' = "populate"
    /\ UNCHANGED <<proofs, root, left, right, certificate, idx, stack, output_file>>

\* Lines 34-43: one iteration of the loop over the proof.
PopulateLoop ==
    /\ pc = "populate"
    /\ k <= Len(proofs[idx].proof)
    /\ LET proofElement == proofs[idx].proof[k]
           reg == PutNode(Registry, computedHash, proofElement)
       IN  /\ computedHash' = ParentHash(computedHash, proofElement)
           /\ left' = reg.left
           /\ right' = reg.right
           /\ hash_to_address' = reg.hash_to_address
    /\ k' = k + 1
    /\ UNCHANGED <<proofs, root, hash_to_value, certificate, pc, idx, stack, output_file>>

\* A faulty loop of line 71 that never moves to the next proof.
PopulateReturnStuck ==
    /\ pc = "populate"
    /\ k > Len(proofs[idx].proof)
    /\ pc' = "main"
    /\ UNCHANGED <<proofs, root, hash_to_address, hash_to_value, left, right,
                   certificate, idx, k, computedHash, stack, output_file>>

\* populate returns; the loop of line 71 moves on.
PopulateReturn ==
    /\ pc = "populate"
    /\ k > Len(proofs[idx].proof)
    /\ idx' = idx + 1
    /\ pc' = "main"
    /\ UNCHANGED <<proofs, root, hash_to_address, hash_to_value, left, right,
                   certificate, k, computedHash, stack, output_file>>

\* -------------------------------------------------------------------- walk
Top == stack[Len(stack)]
Pop == SubSeq(stack, 1, Len(stack) - 1)
Resume(ln) == [stack EXCEPT ![Len(stack)].ln = ln]

\* Line 74: walk(proofs["root"]).
WalkRoot ==
    /\ pc = "main"
    /\ idx > Len(proofs)
    /\ stack' = <<[h |-> root, ln |-> 48]>>
    /\ pc' = "walk"
    /\ UNCHANGED <<proofs, root, hash_to_address, hash_to_value, left, right,
                   certificate, idx, k, computedHash, output_file>>

\* Lines 48-49: h is an internal node; walk(left[h]).
WalkLeft ==
    /\ pc = "walk"
    /\ stack # <<>>
    /\ Top.ln = 48
    /\ Top.h \in DOMAIN left
    /\ stack' = Append(Resume(50), [h |-> left[Top.h], ln |-> 48])
    /\ UNCHANGED <<proofs, root, hash_to_address, hash_to_value, left, right,
                   certificate, pc, idx, k, computedHash, output_file>>

\* A faulty walk that forgets the right subtree.
WalkRightSkipped ==
    /\ pc = "walk"
    /\ stack # <<>>
    /\ Top.ln = 50
    /\ stack' = Resume(51)
    /\ UNCHANGED <<proofs, root, hash_to_address, hash_to_value, left, right,
                   certificate, pc, idx, k, computedHash, output_file>>

\* Line 50: walk(right[h]).
WalkRight ==
    /\ pc = "walk"
    /\ stack # <<>>
    /\ Top.ln = 50
    /\ stack' = Append(Resume(51), [h |-> right[Top.h], ln |-> 48])
    /\ UNCHANGED <<proofs, root, hash_to_address, hash_to_value, left, right,
                   certificate, pc, idx, k, computedHash, output_file>>

\* Lines 51-57: the node record of h; walk returns.
WalkNode ==
    /\ pc = "walk"
    /\ stack # <<>>
    /\ Top.ln = 51
    /\ LET h == Top.h
       IN  IF {h, left[h], right[h]} \subseteq DOMAIN hash_to_address
           THEN /\ certificate' =
                      [certificate EXCEPT !.node =
                          Append(@, [addr |-> hash_to_address[h],
                                     left |-> hash_to_address[left[h]],
                                     right |-> hash_to_address[right[h]]])]
                /\ stack' = Pop
                /\ pc' = pc
           ELSE /\ pc' = "error"
                /\ UNCHANGED <<certificate, stack>>
    /\ UNCHANGED <<proofs, root, hash_to_address, hash_to_value, left, right,
                   idx, k, computedHash, output_file>>

\* A faulty walk that passes over a hash it has no entry for.
WalkLeafLenient ==
    /\ pc = "walk"
    /\ stack # <<>>
    /\ Top.ln = 48
    /\ Top.h \notin DOMAIN left
    /\ LET h == Top.h
       IN  IF h \in DOMAIN hash_to_address /\ h \in DOMAIN hash_to_value
           THEN certificate' =
                    [certificate EXCEPT !.leaf =
                        Append(@, [addr |-> hash_to_address[h],
                                   value |-> hash_to_value[h]])]
           ELSE certificate' = certificate
    /\ stack' = Pop
    /\ UNCHANGED <<proofs, root, hash_to_address, hash_to_value, left, right,
                   pc, idx, k, computedHash, output_file>>

\* Lines 58-61: h is not a key of left; the leaf record of h, or a KeyError.
WalkLeaf ==
    /\ pc = "walk"
    /\ stack # <<>>
    /\ Top.ln = 48
    /\ Top.h \notin DOMAIN left
    /\ LET h == Top.h
       IN  IF h \in DOMAIN hash_to_address /\ h \in DOMAIN hash_to_value
           THEN /\ certificate' =
                      [certificate EXCEPT !.leaf =
                          Append(@, [addr |-> hash_to_address[h],
                                     value |-> hash_to_value[h]])]
                /\ stack' = Pop
                /\ pc' = pc
           ELSE /\ pc' = "error"
                /\ UNCHANGED <<certificate, stack>>
    /\ UNCHANGED <<proofs, root, hash_to_address, hash_to_value, left, right,
                   idx, k, computedHash, output_file>>

\* A faulty emission that swaps the two lengths.
WriteCertificateSwapped ==
    /\ pc = "walk"
    /\ stack = <<>>
    /\ certificate' = [root |-> certificate.root,
                       leaf |-> certificate.leaf,
                       node |-> certificate.node,
                       leafLength |-> Len(certificate.node),
                       nodeLength |-> Len(certificate.leaf)]
    /\ output_file' = <<certificate'>>
    /\ pc' = "done"
    /\ UNCHANGED <<proofs, root, hash_to_address, hash_to_value, left, right,
                   idx, k, computedHash, stack>>

\* Lines 76-82: the lengths, and certificate.json is written.
WriteCertificate ==
    /\ pc = "walk"
    /\ stack = <<>>
    /\ certificate' = [root |-> certificate.root,
                       leaf |-> certificate.leaf,
                       node |-> certificate.node,
                       leafLength |-> Len(certificate.leaf),
                       nodeLength |-> Len(certificate.node)]
    /\ output_file' = <<certificate'>>
    /\ pc' = "done"
    /\ UNCHANGED <<proofs, root, hash_to_address, hash_to_value, left, right,
                   idx, k, computedHash, stack>>

Next ==
    \/ PopulateLeaf
    \/ PopulateLoop
    \/ PopulateReturn
    \/ WalkRoot
    \/ WalkLeft
    \/ WalkRight
    \/ WalkNode
    \/ WalkLeaf
    \/ WriteCertificate

Spec == Init /\ [][Next]_vars

\* The script runs to its end: no step is postponed forever.
FairSpec == Spec /\ WF_vars(Next)

\* ------------------------------------------------------------- properties
Ended == pc \in {"done", "error"}

\* All populate calls of line 72 have returned.
Populated == idx > Len(proofs)

Children(S) ==
    { left[x] : x \in S \cap DOMAIN left } \cup { right[x] : x \in S \cap DOMAIN right }

RECURSIVE Closure(_, _)
Closure(S, n) == IF n = 0 THEN S ELSE Closure(S \cup Children(S), n - 1)

\* The hashes walk(h) can reach through left and right.
Reachable(h) == Closure({h}, Cardinality(DOMAIN left))

Registered(h) ==
    h \in DOMAIN left \/ (h \in DOMAIN hash_to_address /\ h \in DOMAIN hash_to_value)

LeafAddrs(leaves) == { leaves[i].addr : i \in 1..Len(leaves) }
NodeAddrs(nodes, n) == { nodes[i].addr : i \in 1..n }

\* C1 (state part): in the lists built so far, both references of every node
\* record name a leaf record or an earlier node record.
OrderedCertificate ==
    \A j \in 1..Len(certificate.node) :
        {certificate.node[j].left, certificate.node[j].right}
            \subseteq LeafAddrs(certificate.leaf) \cup NodeAddrs(certificate.node, j - 1)

\* C1 (step part): when walk appends a node record, both its references name
\* records that are in the lists already.
AppendsAfterChildren ==
    Len(certificate'.node) > Len(certificate.node) =>
        LET rec == certificate'.node[Len(certificate'.node)]
        IN  {rec.left, rec.right}
                \subseteq LeafAddrs(certificate.leaf)
                            \cup NodeAddrs(certificate.node, Len(certificate.node))

\* C1: dependency order - at every point of walk(root) and in the finished
\* certificate, the left and right of every node record are the addr of a leaf
\* record appended before it or of a node record earlier in the node list.
C1_DependencyOrder == []OrderedCertificate /\ [][AppendsAfterChildren]_vars

\* C1 witness: a finished certificate with a node record above another.
C1_Witness ==
    /\ pc = "done"
    /\ Len(certificate.node) >= 2
    /\ \E j \in 2..Len(certificate.node) :
          certificate.node[j].left \in NodeAddrs(certificate.node, j - 1)
            \/ certificate.node[j].right \in NodeAddrs(certificate.node, j - 1)

\* C2: exactly-once emission - a completed run has one node record per
\* internal hash reachable from the root and one leaf record per reachable
\* leaf hash.
C2_ExactlyOnce ==
    pc = "done" =>
        /\ Len(certificate.node) = Cardinality(Reachable(root) \cap DOMAIN left)
        /\ Len(certificate.leaf) = Cardinality(Reachable(root) \ DOMAIN left)

SameOrAbsent(dict, dict2) ==
    \A h \in DOMAIN dict : h \in DOMAIN dict2 /\ dict2[h] = dict[h]

\* C3: write-once registry - no step changes or removes the value stored
\* under a key of left, right, hash_to_address or hash_to_value.
C3_WriteOnce ==
    [][ /\ SameOrAbsent(left, left')
        /\ SameOrAbsent(right, right')
        /\ SameOrAbsent(hash_to_address, hash_to_address')
        /\ SameOrAbsent(hash_to_value, hash_to_value') ]_vars

\* C4: root-mismatch rejection - a certificate is written only if every
\* proof of the file folds to the declared root.
C4_RootMismatchRejected ==
    output_file # <<>> =>
        \A i \in 1..Len(proofs) : FoldAll(proofs[i]) = root

\* walk is entering a hash the registry has no entry for.
AtUnregistered ==
    /\ pc = "walk"
    /\ stack # <<>>
    /\ Top.ln = 48
    /\ ~Registered(Top.h)

\* C5: an unregistered hash aborts the whole run - the step walk takes at a
\* hash that is neither an internal node nor a leaf of the registry ends the
\* run in an error and appends no record; a run in error has written no
\* certificate and stays in error; and a certificate is written only if every
\* hash reachable from the root is registered.
C5_UnregisteredAborts ==
    /\ [][AtUnregistered =>
            /\ pc' = "error"
            /\ certificate' = certificate
            /\ output_file' = <<>>]_vars
    /\ [][pc = "error" => pc' = "error" /\ output_file' = <<>>]_vars
    /\ [](output_file # <<>> => \A h \in Reachable(root) : Registered(h))

\* C5 witness: the run has failed at an unregistered hash below the root,
\* after it appended records, and nothing is written.
C5_Witness ==
    /\ pc = "error"
    /\ Len(stack) >= 2
    /\ ~Registered(Top.h)
    /\ Len(certificate.leaf) >= 1
    /\ output_file = <<>>

LeafRecords == { certificate.leaf[i] : i \in 1..Len(certificate.leaf) }

\* C6: completeness - on a completed run every claim whose path folds to the
\* root has its leaf record {addr: address, value: amount} and a node record
\* for every internal hash of its path, and every leaf record carries the
\* address and amount of a claim of the file.
C6_Complete ==
    pc = "done" =>
        /\ \A i \in 1..Len(proofs) :
              FoldAll(proofs[i]) = root =>
                /\ [addr |-> proofs[i].address, value |-> proofs[i].amount] \in LeafRecords
                /\ \A n \in 1..Len(proofs[i].proof) :
                      DisplayId(Fold(proofs[i], n))
                          \in NodeAddrs(certificate.node, Len(certificate.node))
        /\ \A r \in LeafRecords :
              \E i \in 1..Len(proofs) :
                  proofs[i].address = r.addr /\ proofs[i].amount = r.value

\* The file of the two-leaf scenario: two claims, each proved by the leaf hash
\* of the other, under the node hash of the two leaves.
TwoLeafFile ==
    /\ Len(proofs) = 2
    /\ proofs[1].amount # BadAmount
    /\ proofs[2].amount # BadAmount
    /\ proofs[1].proof = << keccak_leaf(proofs[2].address, proofs[2].amount) >>
    /\ proofs[2].proof = << keccak_leaf(proofs[1].address, proofs[1].amount) >>
    /\ root = ParentHash(keccak_leaf(proofs[1].address, proofs[1].amount),
                         keccak_leaf(proofs[2].address, proofs[2].amount))

\* C7: two-leaf scenario - the run on such a file does not fail, and its
\* certificate has leafLength 2 and nodeLength 1, the node's left and right
\* being the addr of the two leaf records and its addr the derived identifier
\* of the root; the two lengths are always the lengths of the two lists.
C7_TwoLeafScenario ==
    /\ TwoLeafFile => pc # "error"
    /\ pc = "done" =>
          /\ certificate.leafLength = Len(certificate.leaf)
          /\ certificate.nodeLength = Len(certificate.node)
          /\ output_file = <<certificate>>
    /\ (TwoLeafFile /\ pc = "done") =>
          /\ certificate.leafLength = 2
          /\ certificate.nodeLength = 1
          /\ certificate.node[1].left = certificate.leaf[1].addr
          /\ certificate.node[1].right = certificate.leaf[2].addr
          /\ certificate.node[1].addr = DisplayId(root)
          /\ certificate.root = root

\* C7 witness: the scenario has run to its end, on two different accounts.
C7_Witness ==
    /\ TwoLeafFile
    /\ pc = "done"
    /\ proofs[1].address[1] # proofs[2].address[1]
    /\ certificate.leaf[1].addr # certificate.leaf[2].addr

\* C8 (state part): every internal node has its children in hash order and is
\* their node hash, whichever of the two was the running hash.
CanonicalRegistry ==
    /\ DOMAIN left = DOMAIN right
    /\ \A h \in DOMAIN left :
          /\ HexLE(left[h], right[h])
          /\ h = keccak_node(left[h], right[h])
          /\ ParentHash(left[h], right[h]) = h
          /\ ParentHash(right[h], left[h]) = h
          /\ OrderedPair(left[h], right[h]) = <<left[h], right[h]>>
          /\ OrderedPair(right[h], left[h]) = <<left[h], right[h]>>

\* C8 (step part): the node a populate step registers has the running hash
\* and the sibling as its two children.
RegistersThePair ==
    (pc = "populate" /\ computedHash' # computedHash) =>
        /\ computedHash' \in DOMAIN left'
        /\ {left'[computedHash'], right'[computedHash']}
              = {computedHash, proofs[idx].proof[k]}

\* C8: canonical sibling order - after any sequence of populate steps every
\* internal node h has left[h] <= right[h] in the hash order, its children
\* are the running hash and the sibling that produced it, and h is their node
\* hash, so that folding (a, b) and (b, a) registers the same entry.
C8_CanonicalOrder == []CanonicalRegistry /\ [][RegistersThePair]_vars

\* C8 witness: a node was registered whose sibling went to the left, and one
\* whose sibling went to the right.
C8_Witness ==
    /\ Populated
    /\ Len(proofs) = 2
    /\ Len(proofs[1].proof) >= 1 /\ Len(proofs[2].proof) >= 1
    /\ left[Fold(proofs[1], 1)] = proofs[1].proof[1]
    /\ right[Fold(proofs[1], 1)] # proofs[1].proof[1]
    /\ right[Fold(proofs[2], 1)] = proofs[2].proof[1]
    /\ left[Fold(proofs[2], 1)] # proofs[2].proof[1]

\* No internal node is its own descendant.
NoCycle ==
    \A h \in DOMAIN left :
        h \notin Closure({left[h], right[h]}, Cardinality(DOMAIN left))

\* C9: termination - every run ends, with the certificate written or with an
\* error, and the child relation built by populate never has a cycle.
C9_Termination == <>Ended /\ []NoCycle

\* C9 witness: walk has returned from a tree of depth two.
C9_Witness ==
    /\ pc = "done"
    /\ root \in DOMAIN left
    /\ (left[root] \in DOMAIN left \/ right[root] \in DOMAIN left)

RECURSIVE PopulatePath(_, _, _)
\* populate(address, amount, proof) up to the n-th sibling, on registry reg.
PopulatePath(reg, claim, n) ==
    IF n = 0 THEN PutLeaf(reg, claim.address, claim.amount)
    ELSE PutNode(PopulatePath(reg, claim, n - 1), Fold(claim, n - 1), claim.proof[n])

RECURSIVE PopulateAll(_, _)
\* Lines 71-72 on the first m entries of a file.
PopulateAll(file, m) ==
    IF m = 0 THEN EmptyRegistry
    ELSE PopulatePath(PopulateAll(file, m - 1), file[m], Len(file[m].proof))

Reorderings(file) ==
    { [i \in 1..Len(file) |-> file[p[i]]] :
        p \in { q \in [1..Len(file) -> 1..Len(file)] :
                  \A i, j \in 1..Len(file) : i # j => q[i] # q[j] } }

\* C10: order independence - once every proof is populated, the registry is
\* the one any other order of the same proofs builds.
C10_OrderIndependent ==
    (Populated /\ \A i \in 1..Len(proofs) : proofs[i].amount # BadAmount) =>
        \A file \in Reorderings(proofs) : PopulateAll(file, Len(file)) = Registry
====
